---- MODULE Spec2Model ----
(***************************************************************************)
(* Model of the Hypersave SDK request pipeline: the error classes and      *)
(* createErrorFromStatus (errors.ts) and HypersaveClient.request with its  *)
(* constructor (client.ts).                                                *)
(*                                                                         *)
(* JavaScript values are modelled as follows.  An optional value is a      *)
(* sequence of length at most one: Absent is undefined, Some(v) is v.      *)
(* Strings are TLA+ strings, numbers are integers.  A thrown value is a    *)
(* record: an SDK error (hs = TRUE) carries every field of the error       *)
(* classes; any other thrown object (hs = FALSE) carries an optional name  *)
(* and an optional message; Nullish is a thrown undefined or null.         *)
(***************************************************************************)
EXTENDS Integers, Sequences, FiniteSets, TLC

VARIABLES
    config,       \* the HypersaveConfig given to the constructor
    client,       \* the constructed client, or the error the constructor threw
    calls,        \* per invocation of request: its locals and its promise
    classified    \* log of direct calls of createErrorFromStatus

vars == <<config, client, calls, classified>>

(***************************************************************************)
(* Optional values and JavaScript truthiness                               *)
(***************************************************************************)
Absent == <<>>
Some(v) == <<v>>

\* truthiness of an optional string: undefined and "" are falsy
TruthyStr(o) == o # Absent /\ o[1] # ""

\* truthiness of an optional number: undefined and 0 are falsy
TruthyNum(o) == o # Absent /\ o[1] # 0

\* a || b on optional strings
OrStr(a, b) == IF TruthyStr(a) THEN a ELSE b

\* a || b on optional numbers
OrNum(a, b) == IF TruthyNum(a) THEN a ELSE b

(***************************************************************************)
(* errors.ts: the error classes                                            *)
(***************************************************************************)
HypersaveError(message, statusCode, cause) ==
    [hs |-> TRUE, name |-> "HypersaveError", message |-> message,
     statusCode |-> statusCode, cause |-> cause,
     details |-> Absent, resourceType |-> Absent, resourceId |-> Absent,
     retryAfter |-> Absent, timeout |-> Absent, rawResponse |-> Absent]

\* a default parameter value applies when the argument is undefined
DefaultTo(message, default) == IF message = Absent THEN default ELSE message[1]

AuthenticationError(message) ==
    [HypersaveError(DefaultTo(message, "Invalid or missing API key"), Some(401), Absent)
        EXCEPT !.name = "AuthenticationError"]

ValidationError(message, details) ==
    [HypersaveError(message, Some(400), Absent)
        EXCEPT !.name = "ValidationError", !.details = details]

NotFoundError(message, resourceType, resourceId) ==
    [HypersaveError(message, Some(404), Absent)
        EXCEPT !.name = "NotFoundError",
               !.resourceType = resourceType, !.resourceId = resourceId]

RateLimitError(message, retryAfter) ==
    [HypersaveError(DefaultTo(message, "Rate limit exceeded"), Some(429), Absent)
        EXCEPT !.name = "RateLimitError", !.retryAfter = retryAfter]

TimeoutError(timeout, message) ==
    [HypersaveError(IF TruthyStr(message) THEN message[1]
                    ELSE "Request timed out after " \o ToString(timeout) \o "ms",
                    Some(408), Absent)
        EXCEPT !.name = "TimeoutError", !.timeout = Some(timeout)]

NetworkError(message, cause) ==
    [HypersaveError(DefaultTo(message, "Network connection failed"), Absent, cause)
        EXCEPT !.name = "NetworkError"]

ServerError(message, statusCode) ==
    [HypersaveError(DefaultTo(message, "Internal server error"),
                    Some(DefaultTo(statusCode, 500)), Absent)
        EXCEPT !.name = "ServerError"]

ParseError(message, rawResponse) ==
    [HypersaveError(DefaultTo(message, "Failed to parse API response"), Absent, Absent)
        EXCEPT !.name = "ParseError", !.rawResponse = rawResponse]

(***************************************************************************)
(* Values thrown by the runtime                                            *)
(***************************************************************************)
\* a thrown object that is no SDK error
RawError(name, message) == [hs |-> FALSE, name |-> name, message |-> message]

\* a thrown undefined or null
Nullish == [nullish |-> TRUE]

IsNullish(e) == "nullish" \in DOMAIN e

\* the TypeError the engine throws when a property of undefined or null is read
PropertyOfNullish(prop) ==
    RawError(Some("TypeError"),
             Some("Cannot read properties of null (reading '" \o prop \o "')"))

\* instanceof HypersaveError
IsHypersaveError(e) == ~IsNullish(e) /\ e.hs

\* error.name and error.message of a thrown object
NameOf(e) == IF e.hs THEN Some(e.name) ELSE e.name
MessageOf(e) == IF e.hs THEN Some(e.message) ELSE e.message

(***************************************************************************)
(* errors.ts: createErrorFromStatus                                        *)
(***************************************************************************)
DEFAULT_STATUS_TIMEOUT == 30000

\* details?.field : undefined when details is undefined
OptField(details, field) == IF details = Absent THEN Absent ELSE details[1][field]

\* details.field : reading a property of undefined throws
StrictField(details, field) ==
    IF details = Absent THEN PropertyOfNullish(field) ELSE details[1][field]

\* createErrorFromStatus with details.retryAfter / details.timeout read without ?.
createErrorFromStatus_strictDetails(statusCode, message, details) ==
    CASE statusCode = 400 -> ValidationError(message, details)
      [] statusCode \in {401, 403} -> AuthenticationError(Some(message))
      [] statusCode = 404 -> NotFoundError(message, Absent, Absent)
      [] statusCode = 429 ->
            IF details = Absent THEN StrictField(details, "retryAfter")
            ELSE RateLimitError(Some(message), StrictField(details, "retryAfter"))
      [] statusCode = 408 ->
            IF details = Absent THEN StrictField(details, "timeout")
            ELSE TimeoutError(OrNum(StrictField(details, "timeout"),
                                    Some(DEFAULT_STATUS_TIMEOUT))[1], Some(message))
      [] statusCode \in {500, 502, 503, 504} -> ServerError(Some(message), Some(statusCode))
      [] OTHER -> HypersaveError(message, Some(statusCode), Absent)

\* createErrorFromStatus with the 404 and 429 cases exchanged
createErrorFromStatus_swapped(statusCode, message, details) ==
    CASE statusCode = 400 -> ValidationError(message, details)
      [] statusCode \in {401, 403} -> AuthenticationError(Some(message))
      [] statusCode = 429 -> NotFoundError(message, Absent, Absent)
      [] statusCode = 404 -> RateLimitError(Some(message), OptField(details, "retryAfter"))
      [] statusCode = 408 ->
            TimeoutError(OrNum(OptField(details, "timeout"),
                               Some(DEFAULT_STATUS_TIMEOUT))[1], Some(message))
      [] statusCode \in {500, 502, 503, 504} -> ServerError(Some(message), Some(statusCode))
      [] OTHER -> HypersaveError(message, Some(statusCode), Absent)

\* the classification with every 5xx status mapped to ServerError
createErrorFromStatus_all5xx(statusCode, message, details) ==
    CASE statusCode = 400 -> ValidationError(message, details)
      [] statusCode \in {401, 403} -> AuthenticationError(Some(message))
      [] statusCode = 404 -> NotFoundError(message, Absent, Absent)
      [] statusCode = 429 -> RateLimitError(Some(message), OptField(details, "retryAfter"))
      [] statusCode = 408 ->
            TimeoutError(OrNum(OptField(details, "timeout"),
                               Some(DEFAULT_STATUS_TIMEOUT))[1], Some(message))
      [] statusCode \in 500..599 -> ServerError(Some(message), Some(statusCode))
      [] OTHER -> HypersaveError(message, Some(statusCode), Absent)

\* the classification taking details?.timeout ?? 30000 for status 408
createErrorFromStatus_nullishTimeout(statusCode, message, details) ==
    CASE statusCode = 400 -> ValidationError(message, details)
      [] statusCode \in {401, 403} -> AuthenticationError(Some(message))
      [] statusCode = 404 -> NotFoundError(message, Absent, Absent)
      [] statusCode = 429 -> RateLimitError(Some(message), OptField(details, "retryAfter"))
      [] statusCode = 408 ->
            TimeoutError(IF OptField(details, "timeout") = Absent
                         THEN DEFAULT_STATUS_TIMEOUT
                         ELSE OptField(details, "timeout")[1], Some(message))
      [] statusCode \in {500, 502, 503, 504} -> ServerError(Some(message), Some(statusCode))
      [] OTHER -> HypersaveError(message, Some(statusCode), Absent)

createErrorFromStatus(statusCode, message, details) ==
    CASE statusCode = 400 -> ValidationError(message, details)
      [] statusCode \in {401, 403} -> AuthenticationError(Some(message))
      [] statusCode = 404 -> NotFoundError(message, Absent, Absent)
      [] statusCode = 429 -> RateLimitError(Some(message), OptField(details, "retryAfter"))
      [] statusCode = 408 ->
            TimeoutError(OrNum(OptField(details, "timeout"),
                               Some(DEFAULT_STATUS_TIMEOUT))[1], Some(message))
      [] statusCode \in {500, 502, 503, 504} -> ServerError(Some(message), Some(statusCode))
      [] OTHER -> HypersaveError(message, Some(statusCode), Absent)

(***************************************************************************)
(* client.ts: configuration and constructor                                *)
(***************************************************************************)
\* A URL or path is a sequence of pieces; the piece "/" is one slash and no
\* other piece contains a slash.  The empty sequence is the empty string.
DEFAULT_BASE_URL == <<"https:", "/", "/", "api.hypersave.io">>
DEFAULT_TIMEOUT == 30000

\* truthiness of an optional URL: undefined and the empty string are falsy
TruthyUrl(o) == o # Absent /\ o[1] # <<>>

\* s.replace(/\/$/, ''): removes one slash at the end of s, if there is one
StripTrailingSlash(s) ==
    IF Len(s) > 0 /\ s[Len(s)] = "/" THEN SubSeq(s, 1, Len(s) - 1) ELSE s

\* the constructor rejecting only a missing apiKey, not an empty one
Constructor_undefinedOnly(cfg) ==
    IF cfg.apiKey = Absent
    THEN [ok |-> FALSE, error |-> AuthenticationError(Some("API key is required"))]
    ELSE [ok |-> TRUE,
          apiKey |-> cfg.apiKey[1],
          baseUrl |-> StripTrailingSlash(IF TruthyUrl(cfg.baseUrl) THEN cfg.baseUrl[1]
                                         ELSE DEFAULT_BASE_URL),
          timeout |-> OrNum(cfg.timeout, Some(DEFAULT_TIMEOUT))[1],
          defaultUserId |-> cfg.userId]

\* new HypersaveClient(cfg): the instance, or the error thrown
Constructor(cfg) ==
    IF ~TruthyStr(cfg.apiKey)
    THEN [ok |-> FALSE, error |-> AuthenticationError(Some("API key is required"))]
    ELSE [ok |-> TRUE,
          apiKey |-> cfg.apiKey[1],
          baseUrl |-> StripTrailingSlash(IF TruthyUrl(cfg.baseUrl) THEN cfg.baseUrl[1]
                                         ELSE DEFAULT_BASE_URL),
          timeout |-> OrNum(cfg.timeout, Some(DEFAULT_TIMEOUT))[1],
          defaultUserId |-> cfg.userId]

(***************************************************************************)
(* client.ts: HypersaveClient.request                                      *)
(***************************************************************************)
Methods == {"GET", "POST", "PUT", "DELETE"}

\* the path of the endpoint called; request only concatenates it
Path == <<"/", "v1", "/", "save">>

\* A body is a mapping from field names to optional values.  The metadata
\* field stands for a caller-supplied value; "circular" is an object graph
\* that JSON.stringify cannot serialize.
Serializable(body) ==
    ~("metadata" \in DOMAIN body /\ body.metadata = Some("circular"))

\* JSON.stringify(body): fields whose value is undefined are left out;
\* a circular structure makes it throw a TypeError
Stringify(body) ==
    [k \in {f \in DOMAIN body : body[f] # Absent} |-> body[k][1]]

StringifyError ==
    RawError(Some("TypeError"), Some("Converting circular structure to JSON"))

\* body?.userId
BodyUserId(body) == IF body = Absent THEN Absent ELSE body[1].userId

\* options?.userId || this.defaultUserId || body?.userId  (wrong order)
EffectiveUserId_defaultFirst(optUserId, body, defaultUserId) ==
    OrStr(OrStr(optUserId, defaultUserId), BodyUserId(body))

\* options?.userId || body?.userId || this.defaultUserId
EffectiveUserId(optUserId, body, defaultUserId) ==
    OrStr(OrStr(optUserId, BodyUserId(body)), defaultUserId)

\* the headers object with x-user-id always set ('x-user-id': userId ?? '')
BuildHeaders_userIdAlways(apiKey, userId) ==
    [h \in {"Content-Type", "X-API-Key", "x-user-id"} |->
        IF h = "Content-Type" THEN "application/json"
        ELSE IF h = "X-API-Key" THEN apiKey
        ELSE IF userId = Absent THEN "" ELSE userId[1]]

\* the headers object built before fetch
BuildHeaders(apiKey, userId) ==
    LET base == [h \in {"Content-Type", "X-API-Key"} |->
                    IF h = "Content-Type" THEN "application/json" ELSE apiKey]
    IN  IF TruthyStr(userId) THEN ("x-user-id" :> userId[1]) @@ base ELSE base

\* the settled promise of a call
Resolved(value) == [state |-> "resolved", value |-> value]
Rejected(reason) == [state |-> "rejected", reason |-> reason]

\* error.message.includes('fetch'), for the messages the model draws
FetchMessages == {"fetch failed", "Failed to fetch"}
IncludesFetch(message) == message \in FetchMessages

\* the catch block wrapping every thrown value as an unknown error
Catch_wrapAll(error, timeout) ==
    IF IsNullish(error) THEN Rejected(PropertyOfNullish("name"))
    ELSE Rejected(HypersaveError(OrStr(MessageOf(error), Some("Unknown error"))[1],
                                 Absent, Some(error)))

\* the catch block reporting the default timeout instead of this.timeout
Catch_defaultTimeout(error, timeout) ==
    IF IsNullish(error) THEN Rejected(PropertyOfNullish("name"))
    ELSE IF NameOf(error) = Some("AbortError")
    THEN Rejected(TimeoutError(DEFAULT_TIMEOUT, Absent))
    ELSE IF NameOf(error) = Some("TypeError") /\ MessageOf(error) = Absent
    THEN Rejected(PropertyOfNullish("includes"))
    ELSE IF NameOf(error) = Some("TypeError") /\ IncludesFetch(MessageOf(error)[1])
    THEN Rejected(NetworkError(Some("Failed to connect to Hypersave API"), Some(error)))
    ELSE IF error.hs THEN Rejected(error)
    ELSE Rejected(HypersaveError(OrStr(MessageOf(error), Some("Unknown error"))[1],
                                 Absent, Some(error)))

\* the catch block after clearTimeout: what the promise of request settles to.
\* Reading error.name of a thrown undefined/null, or error.message.includes of
\* a TypeError without a message, throws inside the catch block itself, and
\* that TypeError is what the promise is rejected with.
Catch(error, timeout) ==
    IF IsNullish(error) THEN Rejected(PropertyOfNullish("name"))
    ELSE IF NameOf(error) = Some("AbortError")
    THEN Rejected(TimeoutError(timeout, Absent))
    ELSE IF NameOf(error) = Some("TypeError") /\ MessageOf(error) = Absent
    THEN Rejected(PropertyOfNullish("includes"))
    ELSE IF NameOf(error) = Some("TypeError") /\ IncludesFetch(MessageOf(error)[1])
    THEN Rejected(NetworkError(Some("Failed to connect to Hypersave API"), Some(error)))
    ELSE IF error.hs THEN Rejected(error)
    ELSE Rejected(HypersaveError(OrStr(MessageOf(error), Some("Unknown error"))[1],
                                 Absent, Some(error)))

\* response.ok
Ok(status) == status >= 200 /\ status <= 299

\* contentType.includes('application/json'), for the content types the model draws
JsonContentTypes == {"application/json", "application/json; charset=utf-8"}
IncludesJson(contentType) == contentType \in JsonContentTypes

\* the non-JSON test comparing the whole header value
NotJson_exactMatch(contentType) ==
    ~TruthyStr(contentType) \/ contentType[1] # "application/json"

\* !contentType || !contentType.includes('application/json')
NotJson(contentType) == ~TruthyStr(contentType) \/ ~IncludesJson(contentType[1])

\* the JSON value null, as parsed by response.json()
JsonNull == [null |-> TRUE]
IsJsonNull(data) == "null" \in DOMAIN data

\* a call of request that has not started
IdleCall ==
    [pc |-> "idle", api |-> Absent, args |-> Absent,
     method |-> Absent, body |-> Absent, optUserId |-> Absent,
     request |-> Absent, timerArmed |-> FALSE, aborted |-> FALSE, fetches |-> 0,
     response |-> Absent, received |-> Absent, thrown |-> Absent,
     outcome |-> Absent]

\* the catch block without its clearTimeout
ThrowInTry_noClear(call, error) ==
    [call EXCEPT !.pc = "settled", !.thrown = Some(error),
                 !.outcome = Some(Catch(error, client.timeout))]

\* the catch block issuing the request a second time before it settles
ThrowInTry_retry(call, error) ==
    [call EXCEPT !.pc = "settled", !.timerArmed = FALSE, !.fetches = @ + 1,
                 !.thrown = Some(error),
                 !.outcome = Some(Catch(error, client.timeout))]

\* a throw inside the try block: the catch block runs with the thrown value,
\* clears the timer and settles the promise
ThrowInTry(call, error) ==
    [call EXCEPT !.pc = "settled", !.timerArmed = FALSE, !.thrown = Some(error),
                 !.outcome = Some(Catch(error, client.timeout))]

\* request(method, path, body, options) up to its first await, on the locals
\* of one call: the timer is armed, the headers are built, the body is
\* serialized and fetch is called
BeginRequest(call, method, path, body, optUserId) ==
    LET armed == [call EXCEPT !.method = Some(method), !.body = body,
                              !.optUserId = optUserId, !.timerArmed = TRUE]
        userId == EffectiveUserId(optUserId, body, client.defaultUserId)
        sent == [url |-> client.baseUrl \o path,
                 method |-> method,
                 headers |-> BuildHeaders(client.apiKey, userId),
                 body |-> IF body = Absent THEN Absent ELSE Some(Stringify(body[1]))]
    IN  IF body # Absent /\ ~Serializable(body[1])
        THEN ThrowInTry(armed, StringifyError)
        ELSE [armed EXCEPT !.pc = "fetching", !.request = Some(sent),
                           !.fetches = @ + 1]

\* a call of request(method, Path, body, options)
Start(c, method, body, optUserId) ==
    /\ client.ok
    /\ calls[c].pc = "idle"
    /\ calls' = [calls EXCEPT ![c] =
            BeginRequest(calls[c], method, Path, body, optUserId)]
    /\ UNCHANGED <<config, client, classified>>

\* the timer callback aborting through one controller shared by the client:
\* every call in flight sees the abort
TimerFire_sharedController(c) ==
    /\ calls[c].timerArmed
    /\ calls' = [d \in DOMAIN calls |->
            IF d = c THEN [calls[d] EXCEPT !.timerArmed = FALSE, !.aborted = TRUE]
            ELSE IF calls[d].pc = "fetching" THEN [calls[d] EXCEPT !.aborted = TRUE]
            ELSE calls[d]]
    /\ UNCHANGED <<config, client, classified>>

\* the timer callback: controller.abort()
TimerFire(c) ==
    /\ calls[c].timerArmed
    /\ calls' = [calls EXCEPT ![c].timerArmed = FALSE, ![c].aborted = TRUE]
    /\ UNCHANGED <<config, client, classified>>

\* fetch rejects with the AbortError of the aborted signal
AbortError == RawError(Some("AbortError"), Some("This operation was aborted"))

\* the catch block doubling this.timeout after a timeout, for the next call
FetchAborted_backoff(c) ==
    /\ calls[c].pc = "fetching"
    /\ calls[c].aborted
    /\ calls' = [calls EXCEPT ![c] = ThrowInTry(calls[c], AbortError)]
    /\ client' = [client EXCEPT !.timeout = @ * 2]
    /\ UNCHANGED <<config, classified>>

FetchAborted(c) ==
    /\ calls[c].pc = "fetching"
    /\ calls[c].aborted
    /\ calls' = [calls EXCEPT ![c] = ThrowInTry(calls[c], AbortError)]
    /\ UNCHANGED <<config, client, classified>>

\* fetch rejects with a value of its own (a network failure)
FetchReject(c, error) ==
    /\ calls[c].pc = "fetching"
    /\ ~calls[c].aborted
    /\ calls' = [calls EXCEPT ![c] = ThrowInTry(calls[c], error)]
    /\ UNCHANGED <<config, client, classified>>

\* fetch resolves with a response: the timer is cleared and the body is read
\* as text or as JSON, by content type
FetchResolve(c, status, contentType) ==
    /\ calls[c].pc = "fetching"
    /\ ~calls[c].aborted
    /\ calls' = [calls EXCEPT ![c] =
            [calls[c] EXCEPT !.timerArmed = FALSE,
                             !.response = Some([status |-> status,
                                                contentType |-> contentType]),
                             !.pc = IF NotJson(contentType) THEN "text" ELSE "json"]]
    /\ UNCHANGED <<config, client, classified>>

\* the non-JSON branch resolving with the text when the status is a success
TextRead_resolveOnOk(c, text) ==
    /\ calls[c].pc = "text"
    /\ LET status == calls[c].response[1].status
           got == [calls[c] EXCEPT !.received = Some(text)]
       IN  calls' = [calls EXCEPT ![c] =
                IF ~Ok(status)
                THEN ThrowInTry(got, createErrorFromStatus(status,
                                        OrStr(Some(text), Some("Request failed"))[1],
                                        Absent))
                ELSE [got EXCEPT !.pc = "settled", !.outcome = Some(Resolved(text))]]
    /\ UNCHANGED <<config, client, classified>>

\* response.text() resolves: a non-JSON response always fails
TextRead(c, text) ==
    /\ calls[c].pc = "text"
    /\ LET status == calls[c].response[1].status
           got == [calls[c] EXCEPT !.received = Some(text)]
       IN  calls' = [calls EXCEPT ![c] =
                IF ~Ok(status)
                THEN ThrowInTry(got, createErrorFromStatus(status,
                                        OrStr(Some(text), Some("Request failed"))[1],
                                        Absent))
                ELSE ThrowInTry(got, ParseError(Some("Expected JSON response"),
                                                Some(text)))]
    /\ UNCHANGED <<config, client, classified>>

\* response.text() rejects
TextReject(c, error) ==
    /\ calls[c].pc = "text"
    /\ calls' = [calls EXCEPT ![c] = ThrowInTry(calls[c], error)]
    /\ UNCHANGED <<config, client, classified>>

\* response.json() rejects (the body is not JSON, or the transport failed)
JsonReject(c, error) ==
    /\ calls[c].pc = "json"
    /\ calls' = [calls EXCEPT ![c] = ThrowInTry(calls[c], error)]
    /\ UNCHANGED <<config, client, classified>>

\* data.message || data.error || 'Request failed'  (wrong order)
ErrorMessage_messageFirst(data) ==
    OrStr(OrStr(data.message, data.error), Some("Request failed"))[1]

\* data.error || data.message || 'Request failed'
ErrorMessage(data) ==
    OrStr(OrStr(data.error, data.message), Some("Request failed"))[1]

\* the JSON branch returning only the payload field of the parsed body
HandleJson_payloadOnly(call, data) ==
    LET status == call.response[1].status
        got == [call EXCEPT !.received = Some(data)]
    IN  IF IsJsonNull(data)
        THEN ThrowInTry(got, PropertyOfNullish(IF ~Ok(status) THEN "error" ELSE "success"))
        ELSE IF ~Ok(status) \/ data.success = Some(FALSE)
        THEN ThrowInTry(got, createErrorFromStatus(status, ErrorMessage(data), data.details))
        ELSE [got EXCEPT !.pc = "settled",
                         !.outcome = Some(Resolved([payload |-> data.payload]))]

\* the JSON branch after response.json() has resolved with data.  Reading a
\* property of null throws a TypeError inside the try block: data.error when
\* the status is a failure (the || short-circuits), data.success otherwise.
HandleJson(call, data) ==
    LET status == call.response[1].status
        got == [call EXCEPT !.received = Some(data)]
    IN  IF IsJsonNull(data)
        THEN ThrowInTry(got, PropertyOfNullish(IF ~Ok(status) THEN "error" ELSE "success"))
        ELSE IF ~Ok(status) \/ data.success = Some(FALSE)
        THEN ThrowInTry(got, createErrorFromStatus(status, ErrorMessage(data), data.details))
        ELSE [got EXCEPT !.pc = "settled", !.outcome = Some(Resolved(data))]

\* response.json() resolves with the parsed body
JsonRead(c, data) ==
    /\ calls[c].pc = "json"
    /\ calls' = [calls EXCEPT ![c] = HandleJson(calls[c], data)]
    /\ UNCHANGED <<config, client, classified>>

(***************************************************************************)
(* client.ts: the public methods of HypersaveClient and V7Client           *)
(***************************************************************************)
\* what a public method does with its arguments: it throws before calling
\* request, or it calls request(method, path, body, options)
Throws(error) == [throws |-> TRUE, error |-> error]
Calls(method, path, body, optUserId) ==
    [throws |-> FALSE, method |-> method, path |-> path, body |-> body,
     optUserId |-> optUserId]

\* encodeURIComponent, for the strings the model draws
EncodeURIComponent(s) == IF s = "a b" THEN "a%20b" ELSE s

\* URLSearchParams.toString() after `if (userId) params.set('userId', userId)`,
\* for the user ids the model draws (a space is written as +)
UserIdQuery(userId) ==
    IF ~TruthyStr(userId) THEN ""
    ELSE "userId=" \o (IF userId[1] = "u v" THEN "u+v" ELSE userId[1])

\* `${query ? `?${query}` : ''}`
QuerySuffix(query) == IF query = "" THEN <<>> ELSE <<"?", query>>

\* save that does not check options.content
save_unchecked(options) ==
    Calls("POST", Path,
          Some([content |-> Some(options.content), title |-> Absent, type |-> Absent,
                category |-> Absent, async |-> Some(options.async # Some(FALSE)),
                userId |-> options.userId]),
          Absent)

save(options) ==
    IF options.content = ""
    THEN Throws(ValidationError("Content is required", Absent))
    ELSE Calls("POST", Path,
               Some([content |-> Some(options.content), title |-> Absent,
                     type |-> Absent, category |-> Absent,
                     async |-> Some(options.async # Some(FALSE)),
                     userId |-> options.userId]),
               Absent)

\* this.save({ ...options, async: false })
saveSync(options) == save([options EXCEPT !.async = Some(FALSE)])

getSaveStatus(pendingId) ==
    IF pendingId = ""
    THEN Throws(ValidationError("Pending ID is required", Absent))
    ELSE Calls("GET", <<"/v1/save/status/", EncodeURIComponent(pendingId)>>,
               Absent, Absent)

ask(query, options) ==
    IF query = ""
    THEN Throws(ValidationError("Query is required", Absent))
    ELSE Calls("POST", <<"/v1/ask">>,
               Some([query |-> Some(query), userId |-> options.userId]), Absent)

search(query, options) ==
    IF query = ""
    THEN Throws(ValidationError("Query is required", Absent))
    ELSE Calls("POST", <<"/v1/search">>,
               Some([query |-> Some(query), includeContext |-> Absent,
                     limit |-> Absent, userId |-> options.userId]),
               Absent)

deleteMemory(id, options) ==
    IF id = ""
    THEN Throws(ValidationError("Memory ID is required", Absent))
    ELSE Calls("DELETE", <<"/v1/memory/", EncodeURIComponent(id)>>,
               Absent, options.userId)

\* remind that does not check options.trigger
remind_contentOnly(options) ==
    IF options.content = ""
    THEN Throws(ValidationError("Reminder content is required", Absent))
    ELSE Calls("POST", <<"/v1/remind">>,
               Some([content |-> Some(options.content),
                     trigger |-> Some(options.trigger), triggerType |-> Absent,
                     priority |-> Absent, userId |-> options.userId]),
               Absent)

remind(options) ==
    IF options.content = ""
    THEN Throws(ValidationError("Reminder content is required", Absent))
    ELSE IF options.trigger = ""
    THEN Throws(ValidationError("Reminder trigger is required", Absent))
    ELSE Calls("POST", <<"/v1/remind">>,
               Some([content |-> Some(options.content),
                     trigger |-> Some(options.trigger), triggerType |-> Absent,
                     priority |-> Absent, userId |-> options.userId]),
               Absent)

v7_search(query, options) ==
    IF query = ""
    THEN Throws(ValidationError("Query is required", Absent))
    ELSE Calls("POST", <<"/api/v7/search">>,
               Some([query |-> Some(query), mode |-> Absent, sectors |-> Absent,
                     limit |-> Absent, userId |-> options.userId]),
               Absent)

v7_ask(question, options) ==
    IF question = ""
    THEN Throws(ValidationError("Question is required", Absent))
    ELSE Calls("POST", <<"/api/v7/ask">>,
               Some([question |-> Some(question), userId |-> options.userId]),
               Absent)

v7_ingest(options) ==
    IF options.content = ""
    THEN Throws(ValidationError("Content is required", Absent))
    ELSE IF options.title = ""
    THEN Throws(ValidationError("Title is required", Absent))
    ELSE Calls("POST", <<"/api/v7/ingest">>,
               Some([content |-> Some(options.content), title |-> Some(options.title),
                     type |-> Absent, category |-> Absent, sector |-> Absent,
                     metadata |-> options.metadata, userId |-> options.userId]),
               Absent)

v7_getEntity(name, options) ==
    IF name = ""
    THEN Throws(ValidationError("Entity name is required", Absent))
    ELSE Calls("GET",
               <<"/api/v7/entity/", EncodeURIComponent(name)>>
                    \o QuerySuffix(UserIdQuery(options.userId)),
               Absent, Absent)

query(message, options) ==
    IF message = ""
    THEN Throws(ValidationError("Message is required", Absent))
    ELSE Calls("POST", <<"/v1/query">>,
               Some([message |-> Some(message), skipMemory |-> Absent,
                     limit |-> Absent, userId |-> options.userId]),
               Absent)

\* the methods below build their path from URLSearchParams; the optional
\* limit and type of getMemories and getEntities are left unset
getMemories(options) ==
    Calls("GET", <<"/v1/memories">> \o QuerySuffix(UserIdQuery(options.userId)),
          Absent, Absent)

getProfile(options) ==
    Calls("GET", <<"/v1/profile">> \o QuerySuffix(UserIdQuery(options.userId)),
          Absent, Absent)

getGraph(options) ==
    Calls("GET", <<"/v1/graph">> \o QuerySuffix(UserIdQuery(options.userId)),
          Absent, Absent)

getUsage(options) ==
    Calls("GET", <<"/v1/usage">> \o QuerySuffix(UserIdQuery(options.userId)),
          Absent, Absent)

v7_getEntities(options) ==
    Calls("GET", <<"/api/v7/entities">> \o QuerySuffix(UserIdQuery(options.userId)),
          Absent, Absent)

v7_getFacts(options) ==
    Calls("GET", <<"/api/v7/facts">> \o QuerySuffix(UserIdQuery(options.userId)),
          Absent, Absent)

\* the public methods that take only options
OptionApis ==
    {"getMemories", "getProfile", "getGraph", "getUsage", "v7.getEntities",
     "v7.getFacts"}

\* the public methods that take a required string argument
Apis ==
    {"save", "saveSync", "getSaveStatus", "ask", "search", "query", "deleteMemory",
     "remind", "v7.search", "v7.ask", "v7.ingest", "v7.getEntity"}

\* the methods with two required strings
TwoRequired == {"remind", "v7.ingest"}

\* the call api(...) with the required strings args.required, and the optional
\* user id and metadata where the method takes them
Dispatch(api, args) ==
    LET r == args.required
        options == [userId |-> args.userId]
    IN  CASE api = "save" ->
                save([content |-> r[1], async |-> Absent, userId |-> args.userId])
          [] api = "saveSync" ->
                saveSync([content |-> r[1], async |-> Absent, userId |-> args.userId])
          [] api = "getSaveStatus" -> getSaveStatus(r[1])
          [] api = "ask" -> ask(r[1], options)
          [] api = "search" -> search(r[1], options)
          [] api = "query" -> query(r[1], options)
          [] api = "deleteMemory" -> deleteMemory(r[1], options)
          [] api = "remind" ->
                remind([content |-> r[1], trigger |-> r[2], userId |-> args.userId])
          [] api = "v7.search" -> v7_search(r[1], options)
          [] api = "v7.ask" -> v7_ask(r[1], options)
          [] api = "v7.ingest" ->
                v7_ingest([content |-> r[1], title |-> r[2],
                           metadata |-> args.metadata, userId |-> args.userId])
          [] api = "v7.getEntity" -> v7_getEntity(r[1], options)
          [] api = "getMemories" -> getMemories(options)
          [] api = "getProfile" -> getProfile(options)
          [] api = "getGraph" -> getGraph(options)
          [] api = "getUsage" -> getUsage(options)
          [] api = "v7.getEntities" -> v7_getEntities(options)
          [] api = "v7.getFacts" -> v7_getFacts(options)

\* a call of a public method: an async function, so a throw before request is
\* a rejected promise; otherwise the promise of request is returned
Invoke(c, api, args) ==
    /\ client.ok
    /\ calls[c].pc = "idle"
    /\ LET entered == [calls[c] EXCEPT !.api = Some(api), !.args = Some(args)]
           does == Dispatch(api, args)
       IN  calls' = [calls EXCEPT ![c] =
                IF does.throws
                THEN [entered EXCEPT !.pc = "settled",
                                     !.outcome = Some(Rejected(does.error))]
                ELSE BeginRequest(entered, does.method, does.path, does.body,
                                  does.optUserId)]
    /\ UNCHANGED <<config, client, classified>>

(***************************************************************************)
(* The environment: configurations, arguments, responses, thrown values    *)
(***************************************************************************)
Configs ==
    [apiKey : {Absent, Some(""), Some("k")},
     baseUrl : {Absent},
     timeout : {Absent, Some(5000)},
     userId : {Absent, Some("d")}]

OptUserIds == {Absent, Some(""), Some("o")}

Bodies ==
    {Absent} \cup
    {Some([userId |-> u, metadata |-> md]) :
        u \in {Absent, Some(""), Some("b")}, md \in {Absent, Some("circular")}}

Statuses == {200, 204, 400, 401, 403, 404, 408, 418, 429, 500, 501, 502, 503, 504}

ContentTypes ==
    {Absent, Some("text/plain"), Some("application/json"),
     Some("application/json; charset=utf-8")}

Texts == {"", "pong"}

DetailsSet ==
    {Absent} \cup
    {Some([retryAfter |-> r, timeout |-> t]) :
        <<r, t>> \in {<<Absent, Absent>>, <<Some(30), Absent>>,
                      <<Absent, Some(0)>>, <<Some(0), Some(7000)>>}}

JsonBodies ==
    {JsonNull} \cup
    {[success |-> s, error |-> e, message |-> m, details |-> Absent, payload |-> Some("p")] :
        s \in {Absent, Some(TRUE), Some(FALSE)},
        e \in {Absent, Some(""), Some("quota exceeded")},
        m \in {Absent, Some(""), Some("not found")}} \cup
    {[success |-> Some(FALSE), error |-> Some("quota exceeded"), message |-> Absent,
      details |-> d, payload |-> Absent] : d \in DetailsSet \ {Absent}}

\* values fetch may reject with
FetchThrown ==
    {Nullish} \cup
    {RawError(n, m) :
        n \in {Absent, Some("TypeError"), Some("Error")},
        m \in {Absent, Some(""), Some("fetch failed"), Some("terminated"),
                Some("Load failed")}}

\* values response.text() and response.json() may reject with
BodyThrown ==
    {RawError(Some("SyntaxError"), Some("Unexpected token < in JSON")),
     RawError(Some("TypeError"), Some("terminated")),
     RawError(Some("TypeError"), Absent)}

(***************************************************************************)
(* Specification of one invocation of request on a constructed client      *)
(***************************************************************************)
Init ==
    /\ config \in Configs
    /\ client = Constructor(config)
    /\ calls = [c \in {1} |-> IdleCall]
    /\ classified = <<>>

Next ==
    \/ \E c \in DOMAIN calls, method \in Methods, body \in Bodies, optUserId \in OptUserIds :
            Start(c, method, body, optUserId)
    \/ \E c \in DOMAIN calls : TimerFire(c)
    \/ \E c \in DOMAIN calls : FetchAborted(c)
    \/ \E c \in DOMAIN calls, error \in FetchThrown : FetchReject(c, error)
    \/ \E c \in DOMAIN calls, status \in Statuses, contentType \in ContentTypes :
            FetchResolve(c, status, contentType)
    \/ \E c \in DOMAIN calls, text \in Texts : TextRead(c, text)
    \/ \E c \in DOMAIN calls, error \in BodyThrown : TextReject(c, error)
    \/ \E c \in DOMAIN calls, data \in JsonBodies : JsonRead(c, data)
    \/ \E c \in DOMAIN calls, error \in BodyThrown : JsonReject(c, error)

Spec == Init /\ [][Next]_vars

(***************************************************************************)
(* Specification of direct calls of createErrorFromStatus                  *)
(***************************************************************************)
MaxClassified == 2

ClassifyMessages == {"", "not found"}

\* an SDK user calls the exported createErrorFromStatus
Classify(statusCode, message, details) ==
    /\ Len(classified) < MaxClassified
    /\ classified' = Append(classified,
            [statusCode |-> statusCode, message |-> message, details |-> details,
             result |-> createErrorFromStatus(statusCode, message, details)])
    /\ UNCHANGED <<config, client, calls>>

InitClassify ==
    /\ config = [apiKey |-> Some("k"), baseUrl |-> Absent, timeout |-> Absent,
                 userId |-> Absent]
    /\ client = Constructor(config)
    /\ calls = [c \in {1} |-> IdleCall]
    /\ classified = <<>>

NextClassify ==
    \E statusCode \in Statuses, message \in ClassifyMessages, details \in DetailsSet :
        Classify(statusCode, message, details)

SpecClassify == InitClassify /\ [][NextClassify]_vars

(***************************************************************************)
(* Specification of one call of a public method on a constructed client    *)
(***************************************************************************)
RequiredStrings == {"", "x", "a b"}

ApiUserIds == {Absent, Some(""), Some("u v")}

ApiArgs(api) ==
    [required : IF api \in TwoRequired
                THEN RequiredStrings \X RequiredStrings
                ELSE IF api \in OptionApis THEN {<<>>}
                ELSE {<<r>> : r \in RequiredStrings},
     userId : IF api = "getSaveStatus" THEN {Absent} ELSE ApiUserIds,
     metadata : IF api = "v7.ingest" THEN {Absent, Some("circular")} ELSE {Absent}]

ApiStatuses == {200, 404}
ApiContentTypes == {Some("text/plain"), Some("application/json")}
ApiJsonBodies ==
    {[success |-> s, error |-> Absent, message |-> Absent, details |-> Absent,
      payload |-> Some("p")] : s \in {Some(TRUE), Some(FALSE)}}
ApiThrown == {RawError(Some("TypeError"), Some("fetch failed"))}

InitApi ==
    /\ config \in [apiKey : {Some("k")}, baseUrl : {Absent}, timeout : {Absent},
                   userId : {Absent, Some("d")}]
    /\ client = Constructor(config)
    /\ calls = [c \in {1} |-> IdleCall]
    /\ classified = <<>>

NextApi ==
    \/ \E c \in DOMAIN calls, api \in Apis \cup OptionApis :
            \E args \in ApiArgs(api) : Invoke(c, api, args)
    \/ \E c \in DOMAIN calls : TimerFire(c)
    \/ \E c \in DOMAIN calls : FetchAborted(c)
    \/ \E c \in DOMAIN calls, error \in ApiThrown : FetchReject(c, error)
    \/ \E c \in DOMAIN calls, status \in ApiStatuses, contentType \in ApiContentTypes :
            FetchResolve(c, status, contentType)
    \/ \E c \in DOMAIN calls : TextRead(c, "pong")
    \/ \E c \in DOMAIN calls, error \in ApiThrown : TextReject(c, error)
    \/ \E c \in DOMAIN calls, data \in ApiJsonBodies : JsonRead(c, data)
    \/ \E c \in DOMAIN calls, error \in ApiThrown : JsonReject(c, error)

SpecApi == InitApi /\ [][NextApi]_vars

(***************************************************************************)
(* Specification of concurrent calls of request on one client              *)
(***************************************************************************)
MaxCalls == 2

ConcurrentStatuses == {200, 500}
ConcurrentContentTypes == {Some("text/plain"), Some("application/json")}
ConcurrentJsonBodies ==
    {[success |-> s, error |-> Absent, message |-> Absent, details |-> Absent,
      payload |-> Some("p")] : s \in {Some(TRUE), Some(FALSE)}}
ConcurrentThrown == {RawError(Some("TypeError"), Some("fetch failed"))}

\* every call has its own locals: controller, timeoutId, response, data
InitConcurrent ==
    /\ config = [apiKey |-> Some("k"), baseUrl |-> Absent, timeout |-> Some(5000),
                 userId |-> Absent]
    /\ client = Constructor(config)
    /\ calls = [c \in 1..MaxCalls |-> IdleCall]
    /\ classified = <<>>

NextConcurrent ==
    \/ \E c \in DOMAIN calls : Start(c, "GET", Absent, Absent)
    \/ \E c \in DOMAIN calls : TimerFire(c)
    \/ \E c \in DOMAIN calls : FetchAborted(c)
    \/ \E c \in DOMAIN calls, error \in ConcurrentThrown : FetchReject(c, error)
    \/ \E c \in DOMAIN calls, status \in ConcurrentStatuses,
          contentType \in ConcurrentContentTypes : FetchResolve(c, status, contentType)
    \/ \E c \in DOMAIN calls : TextRead(c, "pong")
    \/ \E c \in DOMAIN calls, error \in ConcurrentThrown : TextReject(c, error)
    \/ \E c \in DOMAIN calls, data \in ConcurrentJsonBodies : JsonRead(c, data)
    \/ \E c \in DOMAIN calls, error \in ConcurrentThrown : JsonReject(c, error)

SpecConcurrent == InitConcurrent /\ [][NextConcurrent]_vars

(***************************************************************************)
(* Specification of concurrent calls of request and of a public method on  *)
(* one client                                                              *)
(***************************************************************************)
ClientArgs ==
    {[required |-> <<r>>, userId |-> Some("u v"), metadata |-> Absent] :
        r \in {"", "x"}}

InitClient ==
    /\ config = [apiKey |-> Some("k"), baseUrl |-> Absent, timeout |-> Some(5000),
                 userId |-> Some("d")]
    /\ client = Constructor(config)
    /\ calls = [c \in 1..MaxCalls |-> IdleCall]
    /\ classified = <<>>

NextClient ==
    \/ \E c \in DOMAIN calls : Start(c, "GET", Absent, Absent)
    \/ \E c \in DOMAIN calls, args \in ClientArgs : Invoke(c, "ask", args)
    \/ \E c \in DOMAIN calls : TimerFire(c)
    \/ \E c \in DOMAIN calls : FetchAborted(c)
    \/ \E c \in DOMAIN calls, error \in ConcurrentThrown : FetchReject(c, error)
    \/ \E c \in DOMAIN calls, status \in ConcurrentStatuses,
          contentType \in ConcurrentContentTypes : FetchResolve(c, status, contentType)
    \/ \E c \in DOMAIN calls : TextRead(c, "pong")
    \/ \E c \in DOMAIN calls, error \in ConcurrentThrown : TextReject(c, error)
    \/ \E c \in DOMAIN calls, data \in ConcurrentJsonBodies : JsonRead(c, data)
    \/ \E c \in DOMAIN calls, error \in ConcurrentThrown : JsonReject(c, error)

SpecClient == InitClient /\ [][NextClient]_vars

(***************************************************************************)
(* Specification of one invocation of request on clients constructed from  *)
(* a wide range of configurations                                          *)
(***************************************************************************)
CustomHost == <<"https:", "/", "/", "example.test">>

BaseUrls ==
    {Absent, Some(<<>>), Some(CustomHost), Some(CustomHost \o <<"/">>),
     Some(CustomHost \o <<"/", "/">>), Some(CustomHost \o <<"/", "api">>)}

Timeouts == {Absent, Some(0), Some(1), Some(5000)}

WideConfigs ==
    [apiKey : {Some(""), Some("k")}, baseUrl : BaseUrls, timeout : Timeouts,
     userId : {Absent}]

InitConstruct ==
    /\ config \in WideConfigs
    /\ client = Constructor(config)
    /\ calls = [c \in {1} |-> IdleCall]
    /\ classified = <<>>

NextConstruct ==
    \/ \E c \in DOMAIN calls : Start(c, "GET", Absent, Absent)
    \/ \E c \in DOMAIN calls : TimerFire(c)
    \/ \E c \in DOMAIN calls : FetchAborted(c)
    \/ \E c \in DOMAIN calls, error \in ConcurrentThrown : FetchReject(c, error)
    \/ \E c \in DOMAIN calls, status \in ConcurrentStatuses,
          contentType \in ConcurrentContentTypes : FetchResolve(c, status, contentType)
    \/ \E c \in DOMAIN calls : TextRead(c, "pong")
    \/ \E c \in DOMAIN calls, error \in ConcurrentThrown : TextReject(c, error)
    \/ \E c \in DOMAIN calls, data \in ConcurrentJsonBodies : JsonRead(c, data)
    \/ \E c \in DOMAIN calls, error \in ConcurrentThrown : JsonReject(c, error)

SpecConstruct == InitConstruct /\ [][NextConstruct]_vars

(***************************************************************************)
(* Concurrent calls of request under the scheduling the runtime guarantees: *)
(* an armed timer eventually fires, and a fetch whose signal is aborted     *)
(* eventually rejects.  Nothing makes the transport deliver a response or   *)
(* a body: it may stall forever.                                            *)
(***************************************************************************)
Fairness ==
    \A c \in 1..MaxCalls : WF_vars(TimerFire(c)) /\ WF_vars(FetchAborted(c))

SpecLive == InitConcurrent /\ [][NextConcurrent]_vars /\ Fairness

(***************************************************************************)
(* Properties                                                              *)
(***************************************************************************)
Settled(c) == calls[c].pc = "settled"
Outcome(c) == calls[c].outcome[1]
RejectedCall(c) == Settled(c) /\ Outcome(c).state = "rejected"
ResolvedCall(c) == Settled(c) /\ Outcome(c).state = "resolved"

\* the call read the response body as JSON and response.json() delivered data
ParsedJson(c) ==
    /\ Settled(c)
    /\ calls[c].response # Absent
    /\ ~NotJson(calls[c].response[1].contentType)
    /\ calls[c].received # Absent

StatusOf(c) == calls[c].response[1].status
DataOf(c) == calls[c].received[1]

\* C1: every failed call of request rejects with a HypersaveError (base class
\* or subclass), whatever value fetch, response.text() or response.json()
\* threw: no raw exception escapes.
C1_RejectsOnlyWithHypersaveError ==
    \A c \in DOMAIN calls : RejectedCall(c) => IsHypersaveError(Outcome(c).reason)

\* C2: when the timer fires before fetch delivers a response, the transport
\* operation is aborted and the call can only settle as rejected with a
\* TimeoutError whose timeout is this.timeout and whose statusCode is 408; it
\* never resolves with a value.
C2_TimerFireGivesTimeoutError ==
    \A c \in DOMAIN calls :
        calls[c].aborted =>
            \/ calls[c].pc = "fetching"
            \/ /\ RejectedCall(c)
               /\ Outcome(c).reason.hs
               /\ Outcome(c).reason.name = "TimeoutError"
               /\ Outcome(c).reason.timeout = Some(client.timeout)
               /\ Outcome(c).reason.statusCode = Some(408)

C2_Witness ==
    \E c \in DOMAIN calls :
        calls[c].aborted /\ RejectedCall(c) /\ client.timeout # DEFAULT_TIMEOUT

\* C3: on every exit path of request the timer is disarmed by the time the
\* call settles: no call is settled while its timer is armed, so the abort
\* callback cannot fire after the call has settled.
C3_TimerDisarmedWhenSettled ==
    \A c \in DOMAIN calls : Settled(c) => ~calls[c].timerArmed /\ ~ENABLED TimerFire(c)

C3_Witness ==
    \E c \in DOMAIN calls :
        /\ RejectedCall(c)
        /\ calls[c].response = Absent
        /\ ~calls[c].aborted
        /\ calls[c].fetches = 1

\* C4 as stated: each invocation of request issues exactly one fetch call,
\* whatever the outcome.
C4_ExactlyOneFetch ==
    \A c \in DOMAIN calls : Settled(c) => calls[c].fetches = 1

\* C4 amended: an invocation issues at most one fetch call; it issues exactly
\* one unless JSON.stringify(body) throws, in which case it issues none and
\* the call rejects; a call never resolves without having issued one.
C4_AtMostOneFetch ==
    \A c \in DOMAIN calls :
        /\ calls[c].fetches <= 1
        /\ calls[c].pc \in {"fetching", "text", "json"} => calls[c].fetches = 1
        /\ Settled(c) =>
              /\ calls[c].fetches = 1 <=>
                    (calls[c].body = Absent \/ Serializable(calls[c].body[1]))
              /\ calls[c].fetches = 0 => RejectedCall(c)
              /\ ResolvedCall(c) => calls[c].fetches = 1

C4_Witness ==
    \E c \in DOMAIN calls :
        /\ RejectedCall(c)
        /\ calls[c].response # Absent
        /\ StatusOf(c) = 429
        /\ calls[c].fetches = 1

\* C5: the x-user-id header is the per-call options.userId if given, otherwise
\* body.userId if given, otherwise the client's defaultUserId if given, and is
\* omitted otherwise (a user id is given when it is a non-empty string).
C5_UserIdPrecedence ==
    \A c \in DOMAIN calls :
        calls[c].request # Absent =>
            LET h == calls[c].request[1].headers
                o == calls[c].optUserId
                b == IF calls[c].body = Absent THEN Absent ELSE calls[c].body[1].userId
                d == client.defaultUserId
                Given(u) == u # Absent /\ u[1] # ""
                Sends(u) == "x-user-id" \in DOMAIN h /\ h["x-user-id"] = u[1]
            IN  IF Given(o) THEN Sends(o)
                ELSE IF Given(b) THEN Sends(b)
                ELSE IF Given(d) THEN Sends(d)
                ELSE "x-user-id" \notin DOMAIN h

C5_Witness ==
    \E c \in DOMAIN calls :
        /\ calls[c].request # Absent
        /\ calls[c].optUserId = Absent
        /\ calls[c].body # Absent
        /\ calls[c].body[1].userId = Some("b")
        /\ client.defaultUserId = Some("d")
        /\ calls[c].request[1].headers["x-user-id"] = "b"

\* the error class the status table assigns to a status code
ExpectedName(statusCode) ==
    CASE statusCode = 400 -> "ValidationError"
      [] statusCode = 401 -> "AuthenticationError"
      [] statusCode = 403 -> "AuthenticationError"
      [] statusCode = 404 -> "NotFoundError"
      [] statusCode = 408 -> "TimeoutError"
      [] statusCode = 429 -> "RateLimitError"
      [] statusCode = 500 -> "ServerError"
      [] statusCode = 502 -> "ServerError"
      [] statusCode = 503 -> "ServerError"
      [] statusCode = 504 -> "ServerError"
      [] OTHER -> "HypersaveError"

\* the kind and the kind-specific fields of one logged classification are
\* those of the status table
TableEntry(e) ==
    LET r == e.result
    IN  /\ r.hs
        /\ r.name = ExpectedName(e.statusCode)
        /\ e.statusCode = 400 => r.details = e.details
        /\ e.statusCode = 429 =>
              r.retryAfter = (IF e.details = Absent THEN Absent
                              ELSE e.details[1].retryAfter)
        /\ r.name \in {"ServerError", "HypersaveError"} =>
              r.statusCode = Some(e.statusCode)

\* C6 as stated: createErrorFromStatus maps every status code to the kind of
\* the status table and keeps the given message and details.
C6_TableKeepsMessage ==
    \A i \in 1..Len(classified) :
        TableEntry(classified[i]) /\ classified[i].result.message = classified[i].message

\* C6 amended: createErrorFromStatus maps every status code to the kind of the
\* status table and keeps the given message and details, except that for 408
\* an empty message is replaced by "Request timed out after <timeout>ms".
C6_TableKeepsNonEmptyMessage ==
    \A i \in 1..Len(classified) :
        LET e == classified[i]
            r == e.result
        IN  /\ TableEntry(e)
            /\ IF e.statusCode = 408 /\ e.message = ""
               THEN r.message =
                        "Request timed out after " \o ToString(r.timeout[1]) \o "ms"
               ELSE r.message = e.message

C6_Witness ==
    \E i \in 1..Len(classified) :
        /\ classified[i].statusCode = 429
        /\ classified[i].message = "not found"
        /\ classified[i].details # Absent
        /\ classified[i].details[1].retryAfter = Some(30)
        /\ classified[i].result.name = "RateLimitError"
        /\ classified[i].result.retryAfter = Some(30)

FieldOf(data, field) == IF IsJsonNull(data) THEN Absent ELSE data[field]

\* C9: for a JSON response whose body was parsed, request fails if and only if
\* the status is outside the success range or the body has success === false;
\* the error is then the status classification of the response status with
\* message body.error, else body.message, else "Request failed", and with
\* body.details as details.
C9_JsonFailureIffSignal ==
    \A c \in DOMAIN calls :
        ParsedJson(c) =>
            LET data == DataOf(c)
                present(u) == u # Absent /\ u[1] # ""
                message == IF present(FieldOf(data, "error")) THEN FieldOf(data, "error")[1]
                           ELSE IF present(FieldOf(data, "message"))
                                THEN FieldOf(data, "message")[1]
                           ELSE "Request failed"
                fails == ~Ok(StatusOf(c)) \/ FieldOf(data, "success") = Some(FALSE)
            IN  /\ RejectedCall(c) <=> fails
                /\ fails => Outcome(c) = Rejected(createErrorFromStatus(
                                StatusOf(c), message, FieldOf(data, "details")))

\* C10: a JSON response with status 200 and body success === false makes
\* request fail with the base HypersaveError, no subclass, whose message is
\* exactly body.error and whose statusCode is 200.
C10_Status200SuccessFalseIsGeneric ==
    \A c \in DOMAIN calls :
        (/\ ParsedJson(c)
         /\ StatusOf(c) = 200
         /\ ~IsJsonNull(DataOf(c))
         /\ DataOf(c).success = Some(FALSE)
         /\ DataOf(c).error # Absent
         /\ DataOf(c).error[1] # "")
        => /\ RejectedCall(c)
           /\ IsHypersaveError(Outcome(c).reason)
           /\ Outcome(c).reason.name = "HypersaveError"
           /\ Outcome(c).reason.message = DataOf(c).error[1]
           /\ Outcome(c).reason.statusCode = Some(200)

C10_Witness ==
    \E c \in DOMAIN calls :
        /\ ParsedJson(c)
        /\ StatusOf(c) = 200
        /\ ~IsJsonNull(DataOf(c))
        /\ DataOf(c).success = Some(FALSE)
        /\ DataOf(c).error = Some("quota exceeded")
        /\ DataOf(c).message = Some("not found")
        /\ RejectedCall(c)
        /\ Outcome(c).reason.message = "quota exceeded"

\* the call read the response body as text and response.text() delivered it
ReadText(c) ==
    /\ Settled(c)
    /\ calls[c].response # Absent
    /\ NotJson(calls[c].response[1].contentType)
    /\ calls[c].received # Absent

\* C11: a response whose content type is absent or not JSON and whose status
\* is a success never makes request return a value: the call fails, and once
\* the text body is read it fails with a ParseError whose message is
\* "Expected JSON response" and whose rawResponse is the raw text.
C11_NonJsonSuccessIsParseError ==
    \A c \in DOMAIN calls :
        (/\ Settled(c)
         /\ calls[c].response # Absent
         /\ NotJson(calls[c].response[1].contentType)
         /\ Ok(StatusOf(c)))
        => /\ RejectedCall(c)
           /\ calls[c].received # Absent =>
                 /\ IsHypersaveError(Outcome(c).reason)
                 /\ Outcome(c).reason.name = "ParseError"
                 /\ Outcome(c).reason.message = "Expected JSON response"
                 /\ Outcome(c).reason.rawResponse = Some(DataOf(c))

C11_Witness ==
    \E c \in DOMAIN calls :
        /\ ReadText(c)
        /\ StatusOf(c) = 200
        /\ calls[c].response[1].contentType = Some("text/plain")
        /\ DataOf(c) = "pong"
        /\ RejectedCall(c)
        /\ Outcome(c).reason.rawResponse = Some("pong")

\* C12 as stated: a non-JSON response with a failure status makes request
\* fail with the kind of the status classification and with the raw text as
\* message, for every raw text, the empty text included.
C12_NonJsonFailureKeepsText ==
    \A c \in DOMAIN calls :
        (ReadText(c) /\ ~Ok(StatusOf(c)))
        => /\ RejectedCall(c)
           /\ IsHypersaveError(Outcome(c).reason)
           /\ Outcome(c).reason.name = ExpectedName(StatusOf(c))
           /\ Outcome(c).reason.message = DataOf(c)

\* C12 amended: a non-JSON response with a failure status makes request fail
\* with the kind of the status classification; the message is the raw text
\* when it is not empty, and "Request failed" when the raw text is empty.
C12_NonJsonFailureTextOrFallback ==
    \A c \in DOMAIN calls :
        (ReadText(c) /\ ~Ok(StatusOf(c)))
        => /\ RejectedCall(c)
           /\ IsHypersaveError(Outcome(c).reason)
           /\ Outcome(c).reason.name = ExpectedName(StatusOf(c))
           /\ Outcome(c).reason.message =
                 (IF DataOf(c) = "" THEN "Request failed" ELSE DataOf(c))

C12_Witness ==
    \E c \in DOMAIN calls :
        /\ ReadText(c)
        /\ StatusOf(c) = 404
        /\ DataOf(c) = "pong"
        /\ RejectedCall(c)
        /\ Outcome(c).reason.name = "NotFoundError"
        /\ Outcome(c).reason.message = "pong"

\* C13: constructing a client with an empty or missing apiKey throws an
\* AuthenticationError at once: no client instance exists, and no request is
\* ever started and no fetch is ever issued.
C13_EmptyApiKeyFailsConstruction ==
    (config.apiKey = Absent \/ config.apiKey = Some(""))
    => /\ ~client.ok
       /\ DOMAIN client = {"ok", "error"}
       /\ IsHypersaveError(client.error)
       /\ client.error.name = "AuthenticationError"
       /\ \A c \in DOMAIN calls :
             calls[c].pc = "idle" /\ calls[c].fetches = 0 /\ ~calls[c].timerArmed

C13_Witness ==
    /\ config.apiKey = Some("")
    /\ ~client.ok
    /\ client.error.message = "API key is required"

\* C14: a public method called with an empty required string argument rejects
\* with a ValidationError without ever entering request: no fetch is issued,
\* no timer is armed and nothing of request has run.
RequiredEmpty(c) ==
    /\ calls[c].api # Absent
    /\ \E i \in DOMAIN calls[c].args[1].required : calls[c].args[1].required[i] = ""

C14_EmptyRequiredIsValidationError ==
    \A c \in DOMAIN calls :
        RequiredEmpty(c)
        => /\ Settled(c)
           /\ Outcome(c).state = "rejected"
           /\ IsHypersaveError(Outcome(c).reason)
           /\ Outcome(c).reason.name = "ValidationError"
           /\ calls[c].fetches = 0
           /\ ~calls[c].timerArmed /\ ~calls[c].aborted
           /\ calls[c].method = Absent /\ calls[c].request = Absent
           /\ calls[c].thrown = Absent

C14_Witness ==
    \E c \in DOMAIN calls :
        /\ calls[c].api = Some("remind")
        /\ calls[c].args[1].required = <<"x", "">>
        /\ Settled(c)
        /\ Outcome(c) = Rejected(ValidationError("Reminder trigger is required", Absent))
        /\ calls[c].fetches = 0

\* the call settled by throwing createErrorFromStatus(response.status, ...):
\* the text of a failed non-JSON response was read, or a JSON object was
\* parsed and the status is a failure or the object says success: false
ClassifiedCall(c) ==
    \/ ReadText(c) /\ ~Ok(StatusOf(c))
    \/ /\ ParsedJson(c)
       /\ ~IsJsonNull(DataOf(c))
       /\ (~Ok(StatusOf(c)) \/ DataOf(c).success = Some(FALSE))

\* C15 (as stated): every failed response with a status from 500 to 599 is
\* surfaced as a ServerError carrying that status code.
C15_Every5xxIsServerError ==
    \A c \in DOMAIN calls :
        ClassifiedCall(c) /\ StatusOf(c) \in 500..599
        => /\ RejectedCall(c)
           /\ Outcome(c).reason.hs
           /\ Outcome(c).reason.name = "ServerError"
           /\ Outcome(c).reason.statusCode = Some(StatusOf(c))

\* C15 (amended): a failed response classified by its status is surfaced as a
\* ServerError carrying the status code when the status is 500, 502, 503 or
\* 504; for every other status from 500 to 599 it is surfaced as the base
\* HypersaveError carrying the status code.
C15_Listed5xxIsServerError ==
    \A c \in DOMAIN calls :
        ClassifiedCall(c) /\ StatusOf(c) \in 500..599
        => /\ RejectedCall(c)
           /\ Outcome(c).reason.hs
           /\ Outcome(c).reason.statusCode = Some(StatusOf(c))
           /\ Outcome(c).reason.name =
                IF StatusOf(c) \in {500, 502, 503, 504} THEN "ServerError"
                ELSE "HypersaveError"

C15_Witness ==
    \E c \in DOMAIN calls :
        /\ ClassifiedCall(c)
        /\ StatusOf(c) = 503
        /\ Outcome(c).reason.name = "ServerError"
        /\ Outcome(c).reason.statusCode = Some(503)

\* the call was rejected with a TimeoutError
TimedOut(c) ==
    /\ RejectedCall(c)
    /\ Outcome(c).reason.hs
    /\ Outcome(c).reason.name = "TimeoutError"

\* the details passed to createErrorFromStatus by a classified call
DetailsOf(c) == IF ReadText(c) THEN Absent ELSE DataOf(c).details

\* C16 (as stated): every TimeoutError request rejects with, from the timer or
\* from an HTTP 408 response, carries the timeout configured on the client.
C16_TimeoutErrorCarriesConfigured ==
    \A c \in DOMAIN calls :
        TimedOut(c) => Outcome(c).reason.timeout = Some(client.timeout)

\* C16 (amended): a TimeoutError caused by the timer carries the timeout
\* configured on the client; a TimeoutError produced from an HTTP 408 response
\* carries details.timeout of the response body when that is a non-zero number
\* and 30000 otherwise, whatever the client's configured timeout.
C16_TimeoutErrorBySource ==
    \A c \in DOMAIN calls :
        TimedOut(c) =>
            \/ /\ calls[c].aborted
               /\ calls[c].response = Absent
               /\ Outcome(c).reason.timeout = Some(client.timeout)
            \/ /\ ~calls[c].aborted
               /\ ClassifiedCall(c)
               /\ StatusOf(c) = 408
               /\ Outcome(c).reason.timeout =
                    OrNum(OptField(DetailsOf(c), "timeout"), Some(DEFAULT_STATUS_TIMEOUT))

C16_Witness ==
    \E c \in DOMAIN calls :
        /\ TimedOut(c)
        /\ ClassifiedCall(c)
        /\ StatusOf(c) = 408
        /\ client.timeout = 5000
        /\ Outcome(c).reason.timeout = Some(30000)

\* fetch itself rejected, and not by the abort of the timer
FetchFailed(c) ==
    /\ Settled(c)
    /\ calls[c].fetches = 1
    /\ calls[c].response = Absent
    /\ ~calls[c].aborted
    /\ calls[c].thrown # Absent

\* C17: every transport failure fetch rejects with (a TypeError, as fetch
\* reports network failures), other than the abort of the timer, is surfaced
\* as a NetworkError whose cause is that error, whatever its message text.
C17_TransportFailureIsNetworkError ==
    \A c \in DOMAIN calls :
        (/\ FetchFailed(c)
         /\ ~IsNullish(calls[c].thrown[1])
         /\ NameOf(calls[c].thrown[1]) = Some("TypeError")
         /\ MessageOf(calls[c].thrown[1]) # Absent)
        => /\ RejectedCall(c)
           /\ Outcome(c).reason.hs
           /\ Outcome(c).reason.name = "NetworkError"
           /\ Outcome(c).reason.cause = calls[c].thrown

\* an exception raised inside request that is not the abort of the timer, not
\* a rejection of fetch and not an SDK error: a throw of JSON.stringify, of
\* response.text() or response.json(), or of the code handling the body
OtherException(c) ==
    /\ Settled(c)
    /\ calls[c].thrown # Absent
    /\ ~calls[c].aborted
    /\ ~FetchFailed(c)
    /\ ~IsHypersaveError(calls[c].thrown[1])

\* error.message || 'Unknown error' of a thrown value, a thrown undefined or
\* null having no message
MessageOrUnknown(e) ==
    IF IsNullish(e) THEN "Unknown error"
    ELSE OrStr(MessageOf(e), Some("Unknown error"))[1]

\* C18: an exception raised inside request that is neither the timer abort nor
\* a transport failure nor a HypersaveError is surfaced as the base
\* HypersaveError with the exception's message, or "Unknown error" when it has
\* none, with no statusCode and with the exception as cause.
C18_OtherExceptionIsGeneric ==
    \A c \in DOMAIN calls :
        OtherException(c)
        => Outcome(c) = Rejected(HypersaveError(MessageOrUnknown(calls[c].thrown[1]),
                                                Absent, calls[c].thrown))

\* the call threw an SDK error inside the try block of request
ThrewSdkError(c) ==
    /\ Settled(c)
    /\ calls[c].thrown # Absent
    /\ IsHypersaveError(calls[c].thrown[1])

\* C19: an SDK error produced inside request, by status classification or as
\* a ParseError, is what the call rejects with, field for field: the catch
\* block neither wraps it nor reclassifies it.
C19_SdkErrorReachesCallerUnchanged ==
    \A c \in DOMAIN calls :
        /\ ThrewSdkError(c) => Outcome(c) = Rejected(calls[c].thrown[1])
        /\ ClassifiedCall(c) \/ (ReadText(c) /\ Ok(StatusOf(c))) => ThrewSdkError(c)

C19_Witness ==
    \E c \in DOMAIN calls :
        /\ ThrewSdkError(c)
        /\ ReadText(c)
        /\ StatusOf(c) = 408
        /\ client.timeout = 5000
        /\ Outcome(c) = Rejected(TimeoutError(DEFAULT_STATUS_TIMEOUT, Some("pong")))

\* the outcome a settled call has by its own history alone: what it threw in
\* its try block, or the body it received
SoloOutcome(call) ==
    IF call.thrown # Absent THEN Catch(call.thrown[1], client.timeout)
    ELSE Resolved(call.received[1])

\* C20: in every interleaving of concurrent calls of request on one client a
\* step belongs to one call and leaves every other call as it was; a call is
\* aborted only by its own armed timer, which aborts no other call; a call
\* settles as timed out only after its own abort; and the outcome of every
\* call is the one its own history gives, as if it ran alone.
C20_CallsDoNotInterfere ==
    [][\A c \in DOMAIN calls :
        /\ calls'[c] # calls[c]
           => \A d \in DOMAIN calls \ {c} : calls'[d] = calls[d]
        /\ calls'[c].aborted /\ ~calls[c].aborted
           => /\ calls[c].timerArmed
              /\ \A d \in DOMAIN calls \ {c} : calls'[d].aborted = calls[d].aborted
        /\ calls'[c].pc = "settled"
           => /\ calls'[c].outcome = Some(SoloOutcome(calls'[c]))
              /\ (calls'[c].thrown = Some(AbortError) => calls'[c].aborted)
              /\ (calls'[c].aborted => calls'[c].thrown = Some(AbortError))]_vars

C20_Witness ==
    /\ TimedOut(1)
    /\ calls[1].aborted
    /\ ~calls[2].aborted
    /\ ResolvedCall(2)
    /\ Outcome(2) = Resolved(DataOf(2))

\* C21: after construction no step of any call, of request or of a public
\* method, succeeding or failing, alone or interleaved with another call,
\* changes the client's apiKey, baseUrl, timeout or defaultUserId.
C21_ConfigurationNeverChanges ==
    [][/\ client'.apiKey = client.apiKey
       /\ client'.baseUrl = client.baseUrl
       /\ client'.timeout = client.timeout
       /\ client'.defaultUserId = client.defaultUserId]_vars

C21_Witness ==
    /\ TimedOut(1)
    /\ calls[2].api = Some("ask")
    /\ ResolvedCall(2)
    /\ client = [ok |-> TRUE, apiKey |-> "k", baseUrl |-> DEFAULT_BASE_URL,
                 timeout |-> 5000, defaultUserId |-> Some("d")]

\* some user id of the call resolves: options.userId, body.userId or the
\* client's default is a non-empty string
UserIdResolves(c) ==
    \/ TruthyStr(calls[c].optUserId)
    \/ calls[c].body # Absent /\ TruthyStr(calls[c].body[1].userId)
    \/ TruthyStr(client.defaultUserId)

\* C22: every request handed to fetch, for every method and with or without a
\* body, has Content-Type: application/json and X-API-Key equal to the
\* client's non-empty apiKey, and has an x-user-id header exactly when a user
\* id resolves; it has no other header.
C22_RequiredHeaders ==
    \A c \in DOMAIN calls :
        calls[c].fetches > 0 =>
            /\ calls[c].request # Absent
            /\ LET h == calls[c].request[1].headers
               IN  /\ {"Content-Type", "X-API-Key"} \subseteq DOMAIN h
                   /\ DOMAIN h \subseteq {"Content-Type", "X-API-Key", "x-user-id"}
                   /\ h["Content-Type"] = "application/json"
                   /\ h["X-API-Key"] = client.apiKey
                   /\ client.apiKey # ""
                   /\ ("x-user-id" \in DOMAIN h) <=> UserIdResolves(c)

C22_Witness ==
    \E c \in DOMAIN calls :
        /\ calls[c].fetches = 1
        /\ calls[c].method = Some("GET")
        /\ calls[c].body = Absent
        /\ ~UserIdResolves(c)
        /\ calls[c].request[1].headers =
                [h \in {"Content-Type", "X-API-Key"} |->
                    IF h = "Content-Type" THEN "application/json" ELSE "k"]

\* the call is a public method given a non-empty userId that differs from the
\* client's configured default, and it reached fetch
OverridesDefault(c) ==
    /\ calls[c].api # Absent
    /\ TruthyStr(calls[c].args[1].userId)
    /\ TruthyStr(client.defaultUserId)
    /\ calls[c].args[1].userId # client.defaultUserId
    /\ calls[c].request # Absent

\* C23: a public method called with a non-empty userId u on a client whose
\* default user id is d, d different from u, sends the request on behalf of
\* u: the x-user-id header of the request is u, not d.
C23_UserIdOptionOverridesDefault ==
    \A c \in DOMAIN calls :
        OverridesDefault(c)
        => LET h == calls[c].request[1].headers
           IN  "x-user-id" \in DOMAIN h /\ h["x-user-id"] = calls[c].args[1].userId[1]

\* the response declared a JSON content type and response.json() rejected
\* with a SyntaxError: the body is not JSON
MalformedJson(c) ==
    /\ Settled(c)
    /\ calls[c].response # Absent
    /\ ~NotJson(calls[c].response[1].contentType)
    /\ calls[c].received = Absent
    /\ calls[c].thrown # Absent
    /\ NameOf(calls[c].thrown[1]) = Some("SyntaxError")

\* C24: a response that declares a JSON content type but whose body cannot be
\* parsed as JSON makes request fail with a ParseError.
C24_MalformedJsonIsParseError ==
    \A c \in DOMAIN calls :
        MalformedJson(c)
        => /\ RejectedCall(c)
           /\ IsHypersaveError(Outcome(c).reason)
           /\ Outcome(c).reason.name = "ParseError"

\* C25: for status 408 createErrorFromStatus returns a TimeoutError whose
\* timeout is the timeout given in details whenever details has one, the
\* value 0 included, and 30000 only when details or its timeout is absent.
C25_Status408KeepsGivenTimeout ==
    \A i \in DOMAIN classified :
        LET e == classified[i]
            given == OptField(e.details, "timeout")
        IN  e.statusCode = 408
            => /\ e.result.name = "TimeoutError"
               /\ e.result.timeout =
                    IF given = Absent THEN Some(DEFAULT_STATUS_TIMEOUT) ELSE given

\* C26: the timeout of a client, which arms the timer and which the
\* TimeoutError of a fired timer reports, is config.timeout whenever
\* config.timeout is provided, for every integer value including 0, and is
\* 30000 only when config.timeout is not provided.
C26_ProvidedTimeoutIsUsed ==
    client.ok =>
        LET expected == IF config.timeout = Absent THEN DEFAULT_TIMEOUT
                        ELSE config.timeout[1]
        IN  /\ client.timeout = expected
            /\ \A c \in DOMAIN calls :
                    calls[c].aborted /\ Settled(c)
                    => Outcome(c).reason.timeout = Some(expected)

\* the junction of baseUrl and path in the URL of a request has one slash
SingleSlashJunction(url, baseLen) ==
    /\ baseLen > 0
    /\ Len(url) > baseLen
    /\ url[baseLen] # "/"
    /\ url[baseLen + 1] = "/"

\* C27: after construction the client's baseUrl never ends with a slash, for
\* every configured baseUrl, one ending with several slashes included, so the
\* URL baseUrl + path of a request has no doubled slash at the junction; with
\* no baseUrl configured the baseUrl is "https://api.hypersave.io".
C27_BaseUrlHasNoTrailingSlash ==
    client.ok =>
        /\ client.baseUrl # <<>>
        /\ client.baseUrl[Len(client.baseUrl)] # "/"
        /\ config.baseUrl = Absent => client.baseUrl = DEFAULT_BASE_URL
        /\ \A c \in DOMAIN calls :
                calls[c].request # Absent
                => /\ calls[c].request[1].url = client.baseUrl \o Path
                   /\ SingleSlashJunction(calls[c].request[1].url, Len(client.baseUrl))

\* C28: every call of request that has started eventually settles, given only
\* that an armed timer eventually fires: also when the transport never
\* delivers a response, and when it delivers the response headers and then
\* stalls while delivering the body.
C28_EveryCallSettles ==
    \A c \in 1..MaxCalls : (calls[c].pc # "idle") ~> (calls[c].pc = "settled")

\* C29: every error request produces from a response by status classification
\* has a statusCode equal to the HTTP status of that response, in particular
\* for 401, 403, 408 and every status the classification does not list.
C29_StatusCodeIsHttpStatus ==
    \A c \in DOMAIN calls :
        ClassifiedCall(c)
        => /\ RejectedCall(c)
           /\ IsHypersaveError(Outcome(c).reason)
           /\ Outcome(c).reason.statusCode = Some(StatusOf(c))

\* the content-type header of the response of a call contains application/json
DeclaresJson(call) ==
    /\ call.response[1].contentType # Absent
    /\ IncludesJson(call.response[1].contentType[1])

\* C30: when the response arrives request takes the JSON branch if and only
\* if the content-type header contains application/json (parameters such as
\* a charset allowed) and the raw-text branch otherwise; a call never moves
\* from one branch to the other, the body is delivered at most once and only
\* as the call leaves its branch, and a call leaving the raw-text branch is
\* rejected, never resolved with a value.
C30_BranchByContentType ==
    [][\A c \in DOMAIN calls :
        /\ calls[c].response = Absent /\ calls'[c].response # Absent
           => /\ calls[c].pc = "fetching"
              /\ calls'[c].pc = IF DeclaresJson(calls'[c]) THEN "json" ELSE "text"
        /\ calls[c].pc = "text" => calls'[c].pc \in {"text", "settled"}
        /\ calls[c].pc = "json" => calls'[c].pc \in {"json", "settled"}
        /\ calls'[c].received # calls[c].received
           => /\ calls[c].received = Absent
              /\ calls[c].pc \in {"text", "json"}
              /\ calls'[c].pc = "settled"
        /\ calls[c].pc = "text" /\ calls'[c].pc = "settled"
           => calls'[c].outcome[1].state = "rejected"]_vars

C30_Witness ==
    \E c \in DOMAIN calls :
        /\ ResolvedCall(c)
        /\ calls[c].response[1].contentType = Some("application/json; charset=utf-8")
        /\ calls[c].received # Absent
        /\ Outcome(c) = Resolved(DataOf(c))

====
